---- MODULE Spec2Model ----
(***************************************************************************)
(* A model of idarling/shared/storage.py: the Storage object that wraps    *)
(* one SQLite connection in autocommit mode and offers insert / select /   *)
(* update operations on the four tables groups, projects, databases and    *)
(* events.                                                                 *)
(*                                                                         *)
(* A table is the sequence of its rows in rowid (insertion) order; a row   *)
(* is a function from column names to values.  Every statement is atomic   *)
(* (isolation_level = None: each statement commits on its own), so every   *)
(* public method of Storage is one action.                                 *)
(*                                                                         *)
(* Python values that reach a text column are modelled as strings; the     *)
(* three non-string values the code can meet there are the Python None,    *)
(* the integer 0 and the integer 1, written None, Zero and One.            *)
(***************************************************************************)
EXTENDS Integers, Sequences, FiniteSets, TLC

VARIABLES
    groups,       \* rows of table groups, in rowid order
    projects,     \* rows of table projects
    databases,    \* rows of table databases
    events,       \* rows of table events
    op,           \* the last call: [name, args, status]
    ret,          \* what the last call returned
    cascade,      \* the caller renaming a project: where it is in the three calls
    interleaved,  \* TRUE once some other write ran between the calls of a rename
    received      \* the events the replaying reader has been given so far

vars == <<groups, projects, databases, events, op, ret, cascade, interleaved,
          received>>
tables == <<groups, projects, databases, events>>

-----------------------------------------------------------------------------
(* Python values *)

None == "<None>"
Zero == "<int 0>"
One == "<int 1>"

\* Python truthiness of a value used as a filter: `if val`
Falsy(v) == v \in {None, "", Zero}

\* `objects[0] if objects else None`: None is the empty tuple, an object o is <<o>>
NoneObj == <<>>
Some(o) == <<o>>

Restrict(f, S) == [k \in S |-> f[k]]

Min(a, b) == IF a < b THEN a ELSE b

-----------------------------------------------------------------------------
(* The schema created by initialize() *)

Cols ==
    [groups    |-> {"name", "date"},
     projects  |-> {"group_name", "name", "hash", "file", "type", "date"},
     databases |-> {"group_name", "project", "name", "date"},
     events    |-> {"group_name", "project", "database", "tick", "dict"}]

PrimaryKey ==
    [groups    |-> {"name"},
     projects  |-> {"group_name", "name"},
     databases |-> {"group_name", "project", "name"},
     events    |-> {"group_name", "project", "database", "tick"}]

\* the one column declared integer; every other column is text
IntCols == {"tick"}

\* the column that holds the JSON text json.dumps returns, never another value
JsonCols == {"dict"}

KeyOf(table, row) == Restrict(row, PrimaryKey[table])

\* The value SQLite stores in, or compares with, a column: a text column
\* turns a bound integer into its decimal text, an integer column keeps it.
Bind(col, v) ==
    IF col \in IntCols \cup JsonCols THEN v
    ELSE IF v = One THEN "1"
    ELSE IF v = Zero THEN "0"
    ELSE v

\* a bound value that is SQL NULL (a tick is always an integer here, and the
\* JSON text always a text)
IsNull(col, v) == col \notin IntCols \cup JsonCols /\ v = None

Ok(rows) == [status |-> "ok", rows |-> rows]
Fail(err, rows) == [status |-> err, rows |-> rows]

UniqueKeys(table, rows) ==
    \A i, j \in 1..Len(rows) : KeyOf(table, rows[i]) = KeyOf(table, rows[j]) => i = j

-----------------------------------------------------------------------------
(* The generic statement builder *)

\* Faulty variant: "insert or replace": a row with the same key is overwritten
_insert_or_replace(table, rows, fields) ==
    LET row == [c \in Cols[table] |-> Bind(c, fields[c])]
    IN  IF ~(DOMAIN fields \subseteq Cols[table])
            THEN Fail("OperationalError", rows)
        ELSE IF \E c \in Cols[table] : c \notin DOMAIN fields \/ IsNull(c, fields[c])
            THEN Fail("IntegrityError", rows)
        ELSE IF \E i \in 1..Len(rows) : KeyOf(table, rows[i]) = KeyOf(table, row)
            THEN Ok([i \in 1..Len(rows) |->
                        IF KeyOf(table, rows[i]) = KeyOf(table, row) THEN row ELSE rows[i]])
        ELSE Ok(Append(rows, row))

\* _insert: "insert into T (keys) values (?...)".  A column the mapping does
\* not name is NULL; every column is declared not null; the primary key is
\* unique.  A failed statement changes nothing.
_insert(table, rows, fields) ==
    LET row == [c \in Cols[table] |-> Bind(c, fields[c])]
    IN  IF ~(DOMAIN fields \subseteq Cols[table])
            THEN Fail("OperationalError", rows)
        ELSE IF \E c \in Cols[table] : c \notin DOMAIN fields \/ IsNull(c, fields[c])
            THEN Fail("IntegrityError", rows)
        ELSE IF \E i \in 1..Len(rows) : KeyOf(table, rows[i]) = KeyOf(table, row)
            THEN Fail("IntegrityError", rows)
        ELSE Ok(Append(rows, row))

\* Faulty variant: every filter is kept, the falsy ones too
Truthy_all(fields) == fields

\* the filters that survive `{key: val for key, val in fields.items() if val}`
Truthy(fields) == Restrict(fields, {k \in DOMAIN fields : ~Falsy(fields[k])})

\* the row satisfies "col = ?" for every filter left
\* Faulty variant: the where clause left out
Matches_any(row, fields) == TRUE

Matches(row, fields) == \A k \in DOMAIN fields : row[k] = Bind(k, fields[k])

\* Faulty variant: the conditions joined with "or" instead of "and"
_select_or(rows, fields, limit) ==
    LET f == Truthy(fields)
        Test(r) == DOMAIN f = {} \/ \E k \in DOMAIN f : r[k] = Bind(k, f[k])
        found == SelectSeq(rows, Test)
    IN  IF limit # 0 THEN SubSeq(found, 1, Min(limit, Len(found))) ELSE found

\* _select: the matching rows in storage order, cut to limit when limit is
\* truthy (limit 0 stands for both None and 0)
_select(rows, fields, limit) ==
    LET f == Truthy(fields)
        Test(r) == Matches(r, f)
        found == SelectSeq(rows, Test)
    IN  IF limit # 0 THEN SubSeq(found, 1, Min(limit, Len(found))) ELSE found

\* Faulty variant: the primary key is not checked when rows are updated
UpdateRows_unchecked(table, rows, field, new_value, picked) ==
    LET new == [i \in 1..Len(rows) |->
                  IF i \in picked
                  THEN [rows[i] EXCEPT ![field] = Bind(field, new_value)]
                  ELSE rows[i]]
    IN  IF picked = {} THEN Ok(rows)
        ELSE IF IsNull(field, new_value) THEN Fail("IntegrityError", rows)
        ELSE Ok(new)

\* _update: "update T set field = ? where ..." on the rows picked; the
\* statement is atomic: a NOT NULL or primary-key violation undoes it whole.
UpdateRows(table, rows, field, new_value, picked) ==
    LET new == [i \in 1..Len(rows) |->
                  IF i \in picked
                  THEN [rows[i] EXCEPT ![field] = Bind(field, new_value)]
                  ELSE rows[i]]
    IN  IF picked = {} THEN Ok(rows)
        ELSE IF IsNull(field, new_value) THEN Fail("IntegrityError", rows)
        ELSE IF ~UniqueKeys(table, new) THEN Fail("IntegrityError", rows)
        ELSE Ok(new)

\* Faulty variant: only the first matching row is updated
_update_first(table, rows, field, new_value, search_fields, limit) ==
    LET f == Truthy(search_fields)
        matching == {i \in 1..Len(rows) : Matches(rows[i], f)}
        first == {i \in matching : \A j \in matching : i <= j}
    IN  {UpdateRows(table, rows, field, new_value, first)}

\* The outcomes of _update.  With a truthy limit the statement ends in
\* "limit N": a syntax error on an SQLite built without
\* SQLITE_ENABLE_UPDATE_DELETE_LIMIT, and an update of N of the matching
\* rows on one built with it.
_update(table, rows, field, new_value, search_fields, limit) ==
    LET f == Truthy(search_fields)
        matching == {i \in 1..Len(rows) : Matches(rows[i], f)}
    IN  IF limit = 0
        THEN {UpdateRows(table, rows, field, new_value, matching)}
        ELSE {Fail("OperationalError", rows)} \cup
             {UpdateRows(table, rows, field, new_value, picked) :
                picked \in {s \in SUBSET matching :
                              Cardinality(s) = Min(limit, Cardinality(matching))}}

\* Faulty variant: "drop table if exists" first: the table is made anew
_create_or_replace(table, existing) == <<>>

\* "create table if not exists": a new, empty table where there is none, and
\* nothing at all where there is one (existing is the table's rows, if any)
_create(table, existing) ==
    IF existing = NoneObj THEN <<>> ELSE existing[1]

-----------------------------------------------------------------------------
(* The collaborators of the model layer: attribute extraction, the typed     *)
(* entities and the JSON text of an event's payload                          *)

IsFalsy(key, v) == IF key \in IntCols THEN v = 0 ELSE Falsy(v)

\* Default.attrs: the object's own fields minus those holding a falsy value
Default_attrs(dct) == Restrict(dct, {k \in DOMAIN dct : ~IsFalsy(k, dct[k])})

\* DefaultEvent.attrs: the same, without the tick (it has its own column)
DefaultEvent_attrs(dct) == Default_attrs(Restrict(dct, DOMAIN dct \ {"tick"}))

\* Group(**result), Project(**result), Database(**result): the typed entity
\* built from a row carries the row's columns
Entity(row) == row

\* DefaultEvent.new(dct): the typed event carries the fields of dct
DefaultEvent_new(dct) == dct

\* the attributes of an event, in the order its __dict__ lists them
AttrOrder == <<"event_type", "ea">>

\* json.dumps of a mapping of strings: the text is the list of its
\* "key": "value" members, in the mapping's order
JsonDumps(dct) ==
    LET Has(k) == k \in DOMAIN dct
        keys == SelectSeq(AttrOrder, Has)
    IN  [i \in 1..Len(keys) |-> <<keys[i], dct[keys[i]]>>]

\* json.loads: the mapping read back from the members (the last one wins)
JsonLoads(text) ==
    [k \in {text[i][1] : i \in 1..Len(text)} |->
        text[CHOOSE i \in 1..Len(text) :
                /\ text[i][1] = k
                /\ \A j \in 1..Len(text) : text[j][1] = k => j <= i][2]]

-----------------------------------------------------------------------------
(* Entity repositories *)

insert_group(group) == _insert("groups", groups, Default_attrs(group))

select_groups(name, limit) ==
    LET results == _select(groups, [name |-> name], limit)
    IN  [i \in 1..Len(results) |-> Entity(results[i])]

select_group(name) ==
    LET objects == select_groups(name, 1)
    IN  IF objects # <<>> THEN Some(objects[1]) ELSE NoneObj

insert_project(project) == _insert("projects", projects, Default_attrs(project))

select_projects(group, name, limit) ==
    LET results == _select(projects, [group_name |-> group, name |-> name], limit)
    IN  [i \in 1..Len(results) |-> Entity(results[i])]

\* select_projects(name, 1): the name lands in the group parameter and the
\* 1 in the name parameter; no limit is passed
select_project(name) ==
    LET objects == select_projects(name, One, 0)
    IN  IF objects # <<>> THEN Some(objects[1]) ELSE NoneObj

\* Faulty variant: the group is left out of the search fields
update_project_name_any_group(group, old_name, new_name, limit) ==
    _update("projects", projects, "name", new_name, [name |-> old_name], limit)

update_project_name(group, old_name, new_name, limit) ==
    _update("projects", projects, "name", new_name,
            [group_name |-> group, name |-> old_name], limit)

\* Faulty variant: the column set is name, as in update_project_name
update_database_name(group, old_name, new_name, limit) ==
    _update("databases", databases, "name", new_name,
            [group_name |-> group, project |-> old_name], limit)

update_database_project(group, old_name, new_name, limit) ==
    _update("databases", databases, "project", new_name,
            [group_name |-> group, project |-> old_name], limit)

\* Faulty variant: the column set is database, not project
update_events_database(group, old_name, new_name, limit) ==
    _update("events", events, "database", new_name,
            [group_name |-> group, project |-> old_name], limit)

update_events_project(group, old_name, new_name, limit) ==
    _update("events", events, "project", new_name,
            [group_name |-> group, project |-> old_name], limit)

\* attrs.pop("tick") raises KeyError when attrs has no tick
insert_database(database) ==
    LET attrs == Default_attrs(database)
    IN  IF "tick" \notin DOMAIN attrs
        THEN Fail("KeyError", databases)
        ELSE _insert("databases", databases, Restrict(attrs, DOMAIN attrs \ {"tick"}))

select_databases(group, project, name, limit) ==
    LET results == _select(databases,
                           [group_name |-> group, project |-> project, name |-> name],
                           limit)
    IN  [i \in 1..Len(results) |-> Entity(results[i])]

select_database(group, project, name) ==
    LET objects == select_databases(group, project, name, 1)
    IN  IF objects # <<>> THEN Some(objects[1]) ELSE NoneObj

-----------------------------------------------------------------------------
(* Event log accessor *)

insert_event(client, event) ==
    LET dct == DefaultEvent_attrs(event)
    IN  _insert("events", events,
                [group_name |-> client.group,
                 project    |-> client.project,
                 database   |-> client.database,
                 tick       |-> event.tick,
                 dict       |-> JsonDumps(dct)])

\* Faulty variant: the where clause lacks "project = ?"
InScope_no_project(row, group, project, database) ==
    LET scope == [group_name |-> group, database |-> database]
    IN  \A c \in DOMAIN scope : ~IsNull(c, scope[c]) /\ row[c] = Bind(c, scope[c])

\* "group_name = ? and project = ? and database = ?": no falsy value is
\* dropped here, and "= NULL" matches no row
InScope(row, group, project, database) ==
    LET scope == [group_name |-> group, project |-> project, database |-> database]
    IN  \A c \in DOMAIN scope : ~IsNull(c, scope[c]) /\ row[c] = Bind(c, scope[c])

\* "order by tick asc" / "order by tick desc"
\* (the k-th row of the result is the row that k - 1 rows come before)
OrderByTick(rows, asc) ==
    LET Precedes(j, i) ==
            \/ IF asc THEN rows[j].tick < rows[i].tick
                       ELSE rows[j].tick > rows[i].tick
            \/ rows[j].tick = rows[i].tick /\ j > i
        Rank(i) == 1 + Cardinality({j \in 1..Len(rows) : Precedes(j, i)})
    IN  [k \in 1..Len(rows) |-> rows[CHOOSE i \in 1..Len(rows) : Rank(i) = k]]

\* dct = json.loads(result["dict"]); dct["tick"] = result["tick"]
EventOf(row) ==
    LET dct == JsonLoads(row.dict)
    IN  DefaultEvent_new([k \in DOMAIN dct \cup {"tick"} |->
                            IF k = "tick" THEN row.tick ELSE dct[k]])

\* Faulty variant: "tick >= ?": the events from the given tick on
select_events_from(group, project, database, tick) ==
    LET Test(r) == InScope(r, group, project, database) /\ r.tick >= tick
        found == OrderByTick(SelectSeq(events, Test), TRUE)
    IN  [i \in 1..Len(found) |-> EventOf(found[i])]

\* Faulty variant: no "order by": the events come in storage order
select_events_unordered(group, project, database, tick) ==
    LET Test(r) == InScope(r, group, project, database) /\ r.tick > tick
        found == SelectSeq(events, Test)
    IN  [i \in 1..Len(found) |-> EventOf(found[i])]

select_events(group, project, database, tick) ==
    LET Test(r) == InScope(r, group, project, database) /\ r.tick > tick
        found == OrderByTick(SelectSeq(events, Test), TRUE)
    IN  [i \in 1..Len(found) |-> EventOf(found[i])]

\* Faulty variant: "order by tick asc limit 1": the least tick
last_tick_ascending(group, project, database) ==
    LET Test(r) == InScope(r, group, project, database)
        found == OrderByTick(SelectSeq(events, Test), TRUE)
        result == SubSeq(found, 1, Min(1, Len(found)))
    IN  IF result # <<>> THEN result[1].tick ELSE 0

last_tick(group, project, database) ==
    LET Test(r) == InScope(r, group, project, database)
        found == OrderByTick(SelectSeq(events, Test), FALSE)
        result == SubSeq(found, 1, Min(1, Len(found)))
    IN  IF result # <<>> THEN result[1].tick ELSE 0

-----------------------------------------------------------------------------
(* State *)

\* no rename is under way
Idle == [pc |-> "idle", group |-> "", old |-> "", new |-> "",
         alone |-> TRUE, pre |-> <<>>]

\* the renaming caller has made its first call and not yet its last
InProgress == cascade.pc \in {"second", "third"}

\* The store as the server finds it once it has built the Storage object on
\* a fresh file and called initialize(): the four tables exist and are empty.
Init ==
    /\ groups = <<>>
    /\ projects = <<>>
    /\ databases = <<>>
    /\ events = <<>>
    /\ op = [name |-> "initialize", args |-> <<>>, status |-> "ok"]
    /\ ret = NoneObj
    /\ cascade = Idle
    /\ interleaved = FALSE
    /\ received = <<>>

\* the call and what it gave back (status "ok", or the exception it raised)
Call(name, args, status, value) ==
    /\ op' = [name |-> name, args |-> args, status |-> status]
    /\ ret' = value

\* a read leaves the renaming caller where it is
Reads == UNCHANGED <<cascade, interleaved, received>>

\* A write made by anyone but the renaming caller: when it changes the store
\* between the calls of a rename, the rename no longer ran alone.
OtherWrite(status) ==
    IF status # "ok" THEN UNCHANGED <<cascade, interleaved, received>>
    ELSE /\ cascade' = IF InProgress THEN [cascade EXCEPT !.alone = FALSE] ELSE Idle
         /\ interleaved' = (interleaved \/ InProgress)
         /\ UNCHANGED received

-----------------------------------------------------------------------------
(* One action per public method of Storage *)

\* "create table if not exists" four times: the tables exist already
Initialize ==
    /\ groups' = _create("groups", Some(groups))
    /\ projects' = _create("projects", Some(projects))
    /\ databases' = _create("databases", Some(databases))
    /\ events' = _create("events", Some(events))
    /\ Call("initialize", <<>>, "ok", NoneObj)
    /\ Reads

InsertGroup(group) ==
    LET out == insert_group(group)
    IN  /\ groups' = out.rows
        /\ Call("insert_group", <<group>>, out.status, NoneObj)
        /\ OtherWrite(out.status)
        /\ UNCHANGED <<projects, databases, events>>

InsertProject(project) ==
    LET out == insert_project(project)
    IN  /\ projects' = out.rows
        /\ Call("insert_project", <<project>>, out.status, NoneObj)
        /\ OtherWrite(out.status)
        /\ UNCHANGED <<groups, databases, events>>

InsertDatabase(database) ==
    LET out == insert_database(database)
    IN  /\ databases' = out.rows
        /\ Call("insert_database", <<database>>, out.status, NoneObj)
        /\ OtherWrite(out.status)
        /\ UNCHANGED <<groups, projects, events>>

InsertEvent(client, event) ==
    LET out == insert_event(client, event)
    IN  /\ events' = out.rows
        /\ Call("insert_event", <<client, event>>, out.status, NoneObj)
        /\ OtherWrite(out.status)
        /\ UNCHANGED <<groups, projects, databases>>

SelectGroup(name) ==
    /\ Call("select_group", <<name>>, "ok", select_group(name))
    /\ Reads
    /\ UNCHANGED tables

SelectGroups(name, limit) ==
    /\ Call("select_groups", <<name, limit>>, "ok", select_groups(name, limit))
    /\ Reads
    /\ UNCHANGED tables

SelectProject(name) ==
    /\ Call("select_project", <<name>>, "ok", select_project(name))
    /\ Reads
    /\ UNCHANGED tables

SelectProjects(group, name, limit) ==
    /\ Call("select_projects", <<group, name, limit>>, "ok",
            select_projects(group, name, limit))
    /\ Reads
    /\ UNCHANGED tables

SelectDatabase(group, project, name) ==
    /\ Call("select_database", <<group, project, name>>, "ok",
            select_database(group, project, name))
    /\ Reads
    /\ UNCHANGED tables

SelectDatabases(group, project, name, limit) ==
    /\ Call("select_databases", <<group, project, name, limit>>, "ok",
            select_databases(group, project, name, limit))
    /\ Reads
    /\ UNCHANGED tables

SelectEvents(group, project, database, tick) ==
    /\ Call("select_events", <<group, project, database, tick>>, "ok",
            select_events(group, project, database, tick))
    /\ Reads
    /\ UNCHANGED tables

LastTick(group, project, database) ==
    /\ Call("last_tick", <<group, project, database>>, "ok",
            last_tick(group, project, database))
    /\ Reads
    /\ UNCHANGED tables

UpdateProjectName(group, old_name, new_name, limit) ==
    \E out \in update_project_name(group, old_name, new_name, limit) :
        /\ projects' = out.rows
        /\ Call("update_project_name", <<group, old_name, new_name, limit>>,
                out.status, NoneObj)
        /\ OtherWrite(out.status)
        /\ UNCHANGED <<groups, databases, events>>

UpdateDatabaseProject(group, old_name, new_name, limit) ==
    \E out \in update_database_project(group, old_name, new_name, limit) :
        /\ databases' = out.rows
        /\ Call("update_database_project", <<group, old_name, new_name, limit>>,
                out.status, NoneObj)
        /\ OtherWrite(out.status)
        /\ UNCHANGED <<groups, projects, events>>

UpdateEventsProject(group, old_name, new_name, limit) ==
    \E out \in update_events_project(group, old_name, new_name, limit) :
        /\ events' = out.rows
        /\ Call("update_events_project", <<group, old_name, new_name, limit>>,
                out.status, NoneObj)
        /\ OtherWrite(out.status)
        /\ UNCHANGED <<groups, projects, databases>>

-----------------------------------------------------------------------------
(* The caller that renames a project: three calls, one after the other, each  *)
(* committed on its own; an exception in one of them ends the rename there.   *)

RenameFirst(group, old_name, new_name) ==
    /\ ~InProgress
    /\ \E out \in update_project_name(group, old_name, new_name, 0) :
        /\ projects' = out.rows
        /\ Call("update_project_name", <<group, old_name, new_name, 0>>,
                out.status, NoneObj)
        /\ cascade' = IF out.status = "ok"
                      THEN [pc |-> "second", group |-> group, old |-> old_name,
                            new |-> new_name, alone |-> TRUE, pre |-> tables]
                      ELSE Idle
    /\ UNCHANGED <<groups, databases, events, interleaved, received>>

RenameSecond ==
    /\ cascade.pc = "second"
    /\ \E out \in update_database_project(cascade.group, cascade.old, cascade.new, 0) :
        /\ databases' = out.rows
        /\ Call("update_database_project",
                <<cascade.group, cascade.old, cascade.new, 0>>, out.status, NoneObj)
        /\ cascade' = IF out.status = "ok"
                      THEN [cascade EXCEPT !.pc = "third"]
                      ELSE Idle
    /\ UNCHANGED <<groups, projects, events, interleaved, received>>

RenameThird ==
    /\ cascade.pc = "third"
    /\ \E out \in update_events_project(cascade.group, cascade.old, cascade.new, 0) :
        /\ events' = out.rows
        /\ Call("update_events_project",
                <<cascade.group, cascade.old, cascade.new, 0>>, out.status, NoneObj)
        /\ cascade' = IF out.status = "ok"
                      THEN [cascade EXCEPT !.pc = "done"]
                      ELSE Idle
    /\ UNCHANGED <<groups, projects, databases, interleaved, received>>

\* Faulty variant: the calls of a rename are one transaction, which the
\* crash rolls back
Crash_rollback ==
    /\ InProgress
    /\ groups' = cascade.pre[1]
    /\ projects' = cascade.pre[2]
    /\ databases' = cascade.pre[3]
    /\ events' = cascade.pre[4]
    /\ Call("initialize", <<>>, "ok", NoneObj)
    /\ cascade' = [cascade EXCEPT !.pc = "crashed"]
    /\ UNCHANGED <<interleaved, received>>

\* The server dies between two calls of a rename and is started again: the
\* connection is in autocommit mode, so what each call wrote is in the file;
\* the new process builds its Storage on that file and calls initialize().
Crash ==
    /\ InProgress
    /\ groups' = _create("groups", Some(groups))
    /\ projects' = _create("projects", Some(projects))
    /\ databases' = _create("databases", Some(databases))
    /\ events' = _create("events", Some(events))
    /\ Call("initialize", <<>>, "ok", NoneObj)
    /\ cascade' = [cascade EXCEPT !.pc = IF cascade.pc = "second"
                                        THEN "crashed after first"
                                        ELSE "crashed after second"]
    /\ UNCHANGED <<interleaved, received>>

-----------------------------------------------------------------------------
(* The event log on its own: writers and readers of the events table *)

MaxTick == 1
MaxEvents == 2

Ticks == 0..MaxTick

GroupNames == {"g1", "g2"}
ProjectNames == {"p1", "p2"}

\* the client contexts of the writers; one has no group
EventClients ==
    {[group |-> "g1", project |-> "p1", database |-> "d1"],
     [group |-> "g1", project |-> "p2", database |-> "d1"],
     [group |-> "g2", project |-> "p1", database |-> "d1"],
     [group |-> None, project |-> "p1", database |-> "d1"]}

\* the events they send: one with an empty attribute
EventObjects ==
    {[tick |-> t, event_type |-> "e", ea |-> a] : t \in Ticks, a \in {"x", ""}}

NextEvents ==
    \/ \E c \in EventClients, e \in EventObjects :
          Len(events) < MaxEvents /\ InsertEvent(c, e)
    \/ \E g \in {"g1", ""}, old \in {"p1"}, new \in {"p2", None}, limit \in {0, 1} :
          UpdateEventsProject(g, old, new, limit)
    \/ \E g \in GroupNames, p \in ProjectNames, t \in -1..MaxTick :
          SelectEvents(g, p, "d1", t)
    \/ \E g \in GroupNames, p \in ProjectNames : LastTick(g, p, "d1")

SpecEvents == Init /\ [][NextEvents]_vars

-----------------------------------------------------------------------------
(* The whole store: every public method, called by any number of callers in  *)
(* any order, with arguments that include the falsy ones                     *)

MaxRows == 2

\* the rows of the four tables together
Rows == Len(groups) + Len(projects) + Len(databases) + Len(events)

GroupObjects == {[name |-> n, date |-> "t1"] : n \in GroupNames \cup {""}}

ProjectObject(g, n) ==
    [group_name |-> g, name |-> n, hash |-> "h", file |-> "f", type |-> "y",
     date |-> "t1"]

ProjectObjects ==
    {ProjectObject("g1", "p1"), ProjectObject("g1", "p2"),
     ProjectObject("g2", "p1"), ProjectObject("g1", "")}

DatabaseObject(g, p, n, t) ==
    [group_name |-> g, project |-> p, name |-> n, date |-> "t1", tick |-> t]

\* a Database object always has a tick; one of these has the tick 0
DatabaseObjects ==
    {DatabaseObject("g1", "p1", "d1", 1), DatabaseObject("g1", "p2", "d1", 1),
     DatabaseObject("g2", "p1", "d1", 1), DatabaseObject("g1", "p1", "d1", 0)}

\* the writers of events, one of them without a group, and what they send
StoreClients ==
    {[group |-> "g1", project |-> "p1", database |-> "d1"],
     [group |-> None, project |-> "p1", database |-> "d1"]}

StoreEvents ==
    {[tick |-> 0, event_type |-> "e", ea |-> "x"],
     [tick |-> 1, event_type |-> "e", ea |-> "x"],
     [tick |-> 1, event_type |-> "e", ea |-> ""]}

\* (group, old_name, new_name, limit) of the update calls
UpdateArgs ==
    {<<"g1", "p1", "p2", 0>>, <<"g1", "p2", "p1", 0>>, <<"", "", "p2", 0>>,
     <<"g1", "p1", None, 0>>, <<"g1", "p1", "", 0>>, <<None, "p1", "p2", 1>>}

Next ==
    \/ Initialize
    \/ \E g \in GroupObjects : Rows < MaxRows /\ InsertGroup(g)
    \/ \E o \in ProjectObjects : Rows < MaxRows /\ InsertProject(o)
    \/ \E d \in DatabaseObjects : Rows < MaxRows /\ InsertDatabase(d)
    \/ \E c \in StoreClients, e \in StoreEvents : Rows < MaxRows /\ InsertEvent(c, e)
    \/ \E a \in UpdateArgs : UpdateProjectName(a[1], a[2], a[3], a[4])
    \/ \E a \in UpdateArgs : UpdateDatabaseProject(a[1], a[2], a[3], a[4])
    \/ \E a \in UpdateArgs : UpdateEventsProject(a[1], a[2], a[3], a[4])
    \/ \E n \in {"g1", "g2"} : SelectGroup(n)
    \/ \E n \in {"g1", ""}, limit \in {0, 1} : SelectGroups(n, limit)
    \/ \E n \in {"p1", "g1"} : SelectProject(n)
    \/ \E g \in {"g1", None}, n \in {"p1", ""}, limit \in {0, 1} :
          SelectProjects(g, n, limit)
    \/ \E p \in ProjectNames : SelectDatabase("g1", p, "d1")
    \/ \E g \in {"g1", None}, p \in {"p1", ""}, n \in {"d1", Zero} :
          SelectDatabases(g, p, n, 0)
    \/ \E p \in ProjectNames, t \in {-1, 0} : SelectEvents("g1", p, "d1", t)
    \/ \E p \in ProjectNames : LastTick("g1", p, "d1")

Spec == Init /\ [][Next]_vars

-----------------------------------------------------------------------------
(* The disciplined callers: a child row is inserted only while its parent    *)
(* row exists, and a project is renamed only by the three calls, made with   *)
(* non-empty arguments; inserts of other callers may fall between the calls  *)

HasGroup(name) == \E i \in 1..Len(groups) : groups[i].name = name

HasProject(group, name) ==
    \E i \in 1..Len(projects) :
        projects[i].group_name = group /\ projects[i].name = name

HasDatabase(group, project, name) ==
    \E i \in 1..Len(databases) :
        /\ databases[i].group_name = group
        /\ databases[i].project = project
        /\ databases[i].name = name

CascadeProjects == {ProjectObject("g1", "p1"), ProjectObject("g1", "p2")}

CascadeDatabases ==
    {DatabaseObject("g1", "p1", "d1", 1), DatabaseObject("g1", "p2", "d1", 1)}

CascadeClients ==
    {[group |-> "g1", project |-> "p1", database |-> "d1"],
     [group |-> "g1", project |-> "p2", database |-> "d1"]}

\* the events of these callers: ticks 0, 1 and 2, not all with the same payload
CascadeEvents ==
    {[tick |-> 0, event_type |-> "e", ea |-> "x"],
     [tick |-> 1, event_type |-> "e", ea |-> ""],
     [tick |-> 2, event_type |-> "e", ea |-> "x"]}

NextCascade ==
    \/ InsertGroup([name |-> "g1", date |-> "t1"])
    \/ \E o \in CascadeProjects : HasGroup(o.group_name) /\ InsertProject(o)
    \/ \E d \in CascadeDatabases :
          HasProject(d.group_name, d.project) /\ InsertDatabase(d)
    \/ \E c \in CascadeClients, e \in CascadeEvents :
          /\ Len(events) < MaxEvents
          /\ HasDatabase(c.group, c.project, c.database)
          /\ InsertEvent(c, e)
    \/ \E old \in ProjectNames, new \in ProjectNames :
          old # new /\ RenameFirst("g1", old, new)
    \/ RenameSecond
    \/ RenameThird

SpecCascade == Init /\ [][NextCascade]_vars

-----------------------------------------------------------------------------
(* The same callers, with readers, and a server that can die between the     *)
(* calls of a rename                                                         *)

NextCrash ==
    \/ InsertGroup([name |-> "g1", date |-> "t1"])
    \/ HasGroup("g1") /\ InsertProject(ProjectObject("g1", "p1"))
    \/ HasProject("g1", "p1") /\ InsertDatabase(DatabaseObject("g1", "p1", "d1", 1))
    \/ \E e \in CascadeEvents :
          /\ Len(events) < MaxEvents
          /\ HasDatabase("g1", "p1", "d1")
          /\ InsertEvent([group |-> "g1", project |-> "p1", database |-> "d1"], e)
    \/ RenameFirst("g1", "p1", "p2")
    \/ RenameSecond
    \/ RenameThird
    \/ Crash
    \/ \E p \in ProjectNames : SelectProjects("g1", p, 0)
    \/ \E p \in ProjectNames : SelectDatabases("g1", p, None, 0)
    \/ \E p \in ProjectNames : SelectEvents("g1", p, "d1", -1)

SpecCrash == Init /\ [][NextCrash]_vars

-----------------------------------------------------------------------------
(* Replay: writers that append to the history of a database, in tick order,  *)
(* writers of another database that follow no order, and a reader that keeps *)
(* asking for the events after the last one it has                           *)

MaxReplayTick == 2

\* the database the reader follows, and another one
Followed == [group |-> "g1", project |-> "p1", database |-> "d1"]
Elsewhere == [group |-> "g1", project |-> "p2", database |-> "d1"]

\* the greatest tick the reader has received so far, 0 before the first
Since ==
    IF received = <<>> THEN 0
    ELSE LET ticks == {received[i].tick : i \in 1..Len(received)}
         IN  CHOOSE t \in ticks : \A u \in ticks : u <= t

\* a writer of the followed database: the tick it gives is above every tick
\* the database has (and so at least 1)
WriteInOrder(event) ==
    /\ event.tick > last_tick(Followed.group, Followed.project, Followed.database)
    /\ InsertEvent(Followed, event)

\* the reader calls select_events with the greatest tick it has and keeps
\* what it is given
Replay ==
    \E since \in {Since} :
        \E got \in {select_events(Followed.group, Followed.project,
                                  Followed.database, since)} :
            /\ received' = received \o got
            /\ Call("select_events",
                    <<Followed.group, Followed.project, Followed.database, since>>,
                    "ok", got)
            /\ UNCHANGED <<tables, cascade, interleaved>>

NextReplay ==
    \/ \E t \in 1..MaxReplayTick :
          WriteInOrder([tick |-> t, event_type |-> "e",
                        ea |-> IF t = 2 THEN "" ELSE "x"])
    \/ \E t \in {0, 1} :
          InsertEvent(Elsewhere, [tick |-> t, event_type |-> "e", ea |-> "x"])
    \/ Replay

SpecReplay == Init /\ [][NextReplay]_vars

\* the reader is not held back for ever: the server answers each of its calls
SpecReplayLive == SpecReplay /\ WF_vars(Replay)

-----------------------------------------------------------------------------
(* Properties of the event log *)

\* the positions of the stored events of a scope
ScopeRows(group, project, database) ==
    {i \in 1..Len(events) :
        /\ events[i].group_name = group
        /\ events[i].project = project
        /\ events[i].database = database}

\* the payload a returned event carries: its fields but the tick
PayloadOf(event) == Restrict(event, DOMAIN event \ {"tick"})

\* the returned event is the stored row: the row's tick, and a payload whose
\* JSON text is the text stored
SameEvent(event, row) ==
    /\ event.tick = row.tick
    /\ JsonDumps(PayloadOf(event)) = row.dict

\* C1: select_events(group, project, database, k) returns exactly the events
\* stored for that scope whose tick is greater than k, none of another scope,
\* none with tick <= k, none missing, in strictly ascending tick order, each
\* with the tick of its row and the payload stored.
C1_SelectEventsExact ==
    op.name = "select_events" =>
        LET want == {i \in ScopeRows(op.args[1], op.args[2], op.args[3]) :
                        events[i].tick > op.args[4]}
        IN  /\ Len(ret) = Cardinality(want)
            /\ \A i \in want : \E j \in 1..Len(ret) : SameEvent(ret[j], events[i])
            /\ \A j \in 1..Len(ret) : \E i \in want : SameEvent(ret[j], events[i])
            /\ \A j \in 1..Len(ret) - 1 : ret[j].tick < ret[j + 1].tick

\* two events of the scope asked for were inserted with the greater tick
\* first, and both came back
C1_Witness ==
    /\ op.name = "select_events"
    /\ Len(ret) >= 2
    /\ \E i, j \in ScopeRows(op.args[1], op.args[2], op.args[3]) :
          i < j /\ events[i].tick > events[j].tick /\ events[j].tick > op.args[4]

\* C2: last_tick returns 0 for a scope without events and otherwise the
\* greatest tick stored for the scope, whatever the order of insertion and
\* whatever other scopes hold.
C2_LastTickIsMax ==
    op.name = "last_tick" =>
        LET ticks == {events[i].tick :
                         i \in ScopeRows(op.args[1], op.args[2], op.args[3])}
        IN  IF ticks = {} THEN ret = 0
            ELSE ret \in ticks /\ \A t \in ticks : t <= ret

\* the scope asked for holds two events, the greater tick inserted first,
\* and another scope holds an event or not
C2_Witness ==
    /\ op.name = "last_tick"
    /\ \E i, j \in ScopeRows(op.args[1], op.args[2], op.args[3]) :
          i < j /\ events[i].tick > events[j].tick /\ ret = events[i].tick

\* the stored event with the key of the insert, if any
SameKey(client, event) ==
    {i \in ScopeRows(client.group, client.project, client.database) :
        events[i].tick = event.tick}

\* C3: an insert_event whose (group, project, database, tick) is already
\* stored fails with a constraint violation and changes no row of any table;
\* one whose key is new (and whose scope is complete) succeeds and appends
\* exactly its row.  Statements are serialised, so of two writers racing on
\* one tick the first to run succeeds and the second gets the error.
C3_DuplicateTickRejected ==
    [][op'.name = "insert_event" =>
          LET client == op'.args[1]
              event == op'.args[2]
          IN  /\ SameKey(client, event) # {} =>
                    /\ op'.status = "IntegrityError"
                    /\ tables' = tables
              /\ (SameKey(client, event) = {} /\ client.group # None) =>
                    /\ op'.status = "ok"
                    /\ events' = Append(events,
                          [group_name |-> client.group,
                           project    |-> client.project,
                           database   |-> client.database,
                           tick       |-> event.tick,
                           dict       |-> JsonDumps(DefaultEvent_attrs(event))])
                    /\ <<groups, projects, databases>>' = <<groups, projects, databases>>
      ]_vars

\* a writer was refused a tick that another writer had stored with another
\* payload, and the winner's row is still there
C3_Witness ==
    /\ op.name = "insert_event"
    /\ op.status = "IntegrityError"
    /\ \E i \in SameKey(op.args[1], op.args[2]) :
          events[i].dict # JsonDumps(DefaultEvent_attrs(op.args[2]))

-----------------------------------------------------------------------------
(* Properties of the whole store *)

\* C5: select_project(name) returns a stored project whose name is `name`
\* whenever one is stored, and None when no project has that name.
C5_SelectProjectByName ==
    op.name = "select_project" =>
        LET named == {i \in 1..Len(projects) : projects[i].name = op.args[1]}
        IN  IF named = {} THEN ret = NoneObj
            ELSE \E i \in named : ret = Some(projects[i])

\* no field of the object is falsy
AllNonEmpty(obj) == \A k \in DOMAIN obj : ~IsFalsy(k, obj[k])

\* C6: round trip.  Inserting a Group, Project or Database whose fields are
\* all non-empty and whose key is not stored succeeds, and select with the
\* object's full key (select_group, select_database as well) then returns
\* exactly one entity, whose columns are those inserted; after an event with
\* tick t >= 1 is inserted, select_events(scope, t - 1) holds an event with
\* tick t and the payload inserted.
C6_RoundTrip ==
    /\ [][
        /\ op'.name = "insert_group" =>
            LET g == op'.args[1]
            IN  (AllNonEmpty(g) /\ select_groups(g.name, 0) = <<>>)
                    => op'.status = "ok"
        /\ op'.name = "insert_project" =>
            LET o == op'.args[1]
            IN  (AllNonEmpty(o) /\ select_projects(o.group_name, o.name, 0) = <<>>)
                    => op'.status = "ok"
        /\ op'.name = "insert_database" =>
            LET d == op'.args[1]
            IN  (AllNonEmpty(d)
                   /\ select_databases(d.group_name, d.project, d.name, 0) = <<>>)
                    => op'.status = "ok"
       ]_vars
    /\ [](op.status = "ok" =>
            /\ op.name = "insert_group" =>
                LET g == op.args[1]
                IN  /\ select_groups(g.name, 0) = <<g>>
                    /\ select_group(g.name) = Some(g)
            /\ op.name = "insert_project" =>
                LET o == op.args[1]
                IN  select_projects(o.group_name, o.name, 0) = <<o>>
            /\ op.name = "insert_database" =>
                LET d == op.args[1]
                    cols == Restrict(d, DOMAIN d \ {"tick"})
                IN  /\ select_databases(d.group_name, d.project, d.name, 0) = <<cols>>
                    /\ select_database(d.group_name, d.project, d.name) = Some(cols)
            /\ op.name = "insert_event" =>
                LET c == op.args[1]
                    e == op.args[2]
                    got == select_events(c.group, c.project, c.database, e.tick - 1)
                IN  e.tick >= 1 =>
                        \E j \in 1..Len(got) :
                            /\ got[j].tick = e.tick
                            /\ PayloadOf(got[j]) = DefaultEvent_attrs(e))

\* a database was inserted beside another row of its table and is found
\* under its key with the columns inserted
C6_Witness ==
    /\ op.name = "insert_database"
    /\ op.status = "ok"
    /\ Len(databases) = 2
    /\ select_database(op.args[1].group_name, op.args[1].project, op.args[1].name)
          = Some(Restrict(op.args[1], DOMAIN op.args[1] \ {"tick"}))

\* the falsy values a filter can hold: None, the empty string and 0
FalsyValues == {None, "", Zero}

\* the columns the select methods filter on, each with a name to look for
FilterCols ==
    [groups    |-> [name |-> "g1"],
     projects  |-> [group_name |-> "g1", name |-> "p1"],
     databases |-> [group_name |-> "g1", project |-> "p1", name |-> "d1"],
     events    |-> [group_name |-> "g1", project |-> "p1", database |-> "d1"]]

\* the filter maps of each table: a column holds its name or a falsy value
Filters ==
    [table \in DOMAIN FilterCols |->
        LET names == FilterCols[table]
        IN  {f \in [DOMAIN names -> {"g1", "p1", "d1"} \cup FalsyValues] :
                \A k \in DOMAIN names : f[k] \in {names[k]} \cup FalsyValues}]

TableRows(table) ==
    IF table = "groups" THEN groups
    ELSE IF table = "projects" THEN projects
    ELSE IF table = "databases" THEN databases
    ELSE events

\* the rows that agree with the filter on every column whose value is not
\* None, "" or 0
AgreeingRows(rows, fields) ==
    LET Test(r) == \A k \in DOMAIN fields :
                      fields[k] \in FalsyValues \/ r[k] = fields[k]
    IN  SelectSeq(rows, Test)

\* the first `limit` rows, all of them when limit is 0
Cut(rows, limit) == IF limit = 0 THEN rows ELSE SubSeq(rows, 1, Min(limit, Len(rows)))

\* C7: for every content of the tables, every table, filter map and limit,
\* _select with a falsy filter value returns the rows it returns with that
\* entry left out: the rows matching the non-falsy filters only, all rows of
\* the table when every value is falsy; and so do select_groups,
\* select_projects and select_databases whenever they are called.  (The
\* tables alone decide the first part: it is evaluated once per content of
\* the tables, in the state initialize() leaves.)
C7_FalsyFilterIsNoFilter ==
    /\ op.name = "initialize" =>
        \A table \in DOMAIN FilterCols :
            \A fields \in Filters[table], limit \in {0, 1} :
                /\ \A k \in DOMAIN fields :
                      Falsy(fields[k]) =>
                          _select(TableRows(table), fields, limit)
                            = _select(TableRows(table),
                                      Restrict(fields, DOMAIN fields \ {k}), limit)
                /\ _select(TableRows(table), fields, limit)
                      = Cut(AgreeingRows(TableRows(table), fields), limit)
    /\ op.name = "select_groups" =>
        ret = Cut(AgreeingRows(groups, [name |-> op.args[1]]), op.args[2])
    /\ op.name = "select_projects" =>
        ret = Cut(AgreeingRows(projects,
                               [group_name |-> op.args[1], name |-> op.args[2]]),
                  op.args[3])
    /\ op.name = "select_databases" =>
        ret = Cut(AgreeingRows(databases,
                               [group_name |-> op.args[1], project |-> op.args[2],
                                name |-> op.args[3]]),
                  op.args[4])

\* select_groups("") was called on a table of two groups and returned both
C7_Witness ==
    /\ op.name = "select_groups"
    /\ op.args = <<"", 0>>
    /\ Len(groups) = 2
    /\ ret = groups

AllKeysUnique ==
    /\ UniqueKeys("groups", groups)
    /\ UniqueKeys("projects", projects)
    /\ UniqueKeys("databases", databases)
    /\ UniqueKeys("events", events)

\* the insert names the key of a stored row
InsertsStoredKey(table, rows, cols) ==
    \E i \in 1..Len(rows) : \A k \in PrimaryKey[table] : rows[i][k] = cols[k]

\* the update, run on every matching row, would give two rows one key
RenameCollides(table, rows, field, args) ==
    LET hit(r) == /\ Falsy(args[1]) \/ r.group_name = args[1]
                  /\ Falsy(args[2]) \/ r[field] = args[2]
        after(r) == IF hit(r) THEN [r EXCEPT ![field] = args[3]] ELSE r
    IN  /\ args[3] # None
        /\ args[4] = 0
        /\ \E i, j \in 1..Len(rows) :
              /\ i # j
              /\ hit(rows[i])
              /\ KeyOf(table, after(rows[i])) = KeyOf(table, after(rows[j]))

\* C8: in every reachable state no two rows of a table share their identity
\* key; an insert or a rename that would create a duplicate key fails, and a
\* call that fails leaves every table as it was.
C8_IdentityKeysUnique ==
    /\ []AllKeysUnique
    /\ [][/\ op'.status # "ok" => tables' = tables
          /\ (op'.name = "insert_group"
                /\ InsertsStoredKey("groups", groups, op'.args[1]))
                => op'.status # "ok"
          /\ (op'.name = "insert_project"
                /\ InsertsStoredKey("projects", projects, op'.args[1]))
                => op'.status # "ok"
          /\ (op'.name = "insert_database"
                /\ InsertsStoredKey("databases", databases, op'.args[1]))
                => op'.status # "ok"
          /\ (op'.name = "insert_event" /\ SameKey(op'.args[1], op'.args[2]) # {})
                => op'.status # "ok"
          /\ (op'.name = "update_project_name"
                /\ RenameCollides("projects", projects, "name", op'.args))
                => op'.status = "IntegrityError"
          /\ (op'.name = "update_database_project"
                /\ RenameCollides("databases", databases, "project", op'.args))
                => op'.status = "IntegrityError"
          /\ (op'.name = "update_events_project"
                /\ RenameCollides("events", events, "project", op'.args))
                => op'.status = "IntegrityError"
         ]_vars

\* a rename onto the name of another project of the group was refused and
\* both projects are still there
C8_Witness ==
    /\ op.name = "update_project_name"
    /\ op.status = "IntegrityError"
    /\ Len(projects) = 2
    /\ projects[1].group_name = projects[2].group_name
    /\ projects[1].name # projects[2].name

\* C9 as claimed: once inserted, an events row is never deleted and none of
\* its columns (group_name, project, database, tick, dict) ever changes.
C9_EventsNeverChange ==
    [][\A i \in 1..Len(events) : i <= Len(events') /\ events'[i] = events[i]]_vars

\* C9 as the code has it: once inserted, an events row is never deleted and
\* its group_name, database, tick and dict never change; its project changes
\* only in a call of update_events_project.
C9_EventsKeepAllButProject ==
    [][\A i \in 1..Len(events) :
          /\ i <= Len(events')
          /\ events'[i] = [events[i] EXCEPT !.project = events'[i].project]
          /\ events'[i].project # events[i].project
                => op'.name = "update_events_project"
      ]_vars

\* update_events_project has moved a stored event to another project
C9_Witness ==
    /\ op.name = "update_events_project"
    /\ op.status = "ok"
    /\ \E i \in 1..Len(events) : events[i].project = op.args[3]

-----------------------------------------------------------------------------
(* Properties of the rename of a project *)

AsSet(seq) == {seq[i] : i \in 1..Len(seq)}

\* the rows of a table before the first call of the rename, under the
\* group of the rename and the given project name
Before(table, field, name) ==
    {r \in AsSet(cascade.pre[table]) :
        r.group_name = cascade.group /\ r[field] = name}

\* The three calls have run in order with nothing written in between, on a
\* store that held the project under its old name and no projects, databases
\* or events row under the new one.
RenameRan ==
    /\ cascade.pc = "done"
    /\ cascade.alone
    /\ Before(2, "name", cascade.old) # {}
    /\ Before(2, "name", cascade.new) = {}
    /\ Before(3, "project", cascade.new) = {}
    /\ Before(4, "project", cascade.new) = {}

\* What the selects return once the rename ran; the events asked for are
\* those of tick above `floor` that were under the old name.
RenamePost(floor) ==
    LET g == cascade.group
        p1 == cascade.old
        p2 == cascade.new
        dbs == Before(3, "project", p1)
    IN  /\ Len(select_projects(g, p2, 0)) = 1
        /\ Len(select_databases(g, p2, None, 0)) = Cardinality(dbs)
        /\ AsSet(select_databases(g, p2, None, 0))
              = {[r EXCEPT !.project = p2] : r \in dbs}
        /\ \A d \in dbs :
              LET was == {e \in Before(4, "project", p1) :
                             e.database = d.name /\ e.tick > floor}
                  got == select_events(g, p2, d.name, 0)
              IN  /\ Len(got) = Cardinality(was)
                  /\ AsSet(got) = {EventOf(e) : e \in was}
                  /\ select_events(g, p1, d.name, 0) = <<>>
        /\ select_projects(g, p1, 0) = <<>>
        /\ select_databases(g, p1, None, 0) = <<>>

\* C4 as claimed: after the three calls, select_projects(g, p2) returns one
\* project, select_databases(g, p2) exactly the databases that were under
\* (g, p1), select_events(g, p2, d, 0) exactly the events that were under
\* (g, p1, d), every one of them, with ticks and payloads unchanged, and the
\* same queries with p1 return nothing.
C4_RenameMovesEveryEvent == RenameRan => RenamePost(-1)

\* C4 as the code has it: the same, where select_events(g, p2, d, 0) returns
\* exactly the events of tick greater than 0 that were under (g, p1, d).
C4_RenameMovesEventsAboveZero == RenameRan => RenamePost(0)

\* a project with a database holding an event of tick 0 and one of a greater
\* tick has been renamed
C4_Witness ==
    /\ RenameRan
    /\ \E e1, e2 \in Before(4, "project", cascade.old) :
          /\ e1.database = e2.database
          /\ e1.tick = 0
          /\ e2.tick > 0
          /\ \E d \in Before(3, "project", cascade.old) : d.name = e1.database

ReferentialIntegrity ==
    /\ \A i \in 1..Len(projects) : HasGroup(projects[i].group_name)
    /\ \A i \in 1..Len(databases) :
          HasProject(databases[i].group_name, databases[i].project)
    /\ \A i \in 1..Len(events) :
          HasDatabase(events[i].group_name, events[i].project, events[i].database)

-----------------------------------------------------------------------------
(* Properties of the schema manager and of the read paths *)

\* C11: initialize() is idempotent: called at any point, any number of
\* times, on a store that holds rows or not, it does not fail and leaves the
\* contents of the four tables as they were.
C11_InitializeIdempotent ==
    [][op'.name = "initialize" => (op'.status = "ok" /\ tables' = tables)]_vars

\* initialize() has been called on a store that holds rows
C11_Witness ==
    /\ op.name = "initialize"
    /\ Len(groups) > 0
    /\ Len(projects) + Len(databases) + Len(events) > 0

\* the read methods of the store
ReadNames ==
    {"select_group", "select_groups", "select_project", "select_projects",
     "select_database", "select_databases", "select_events", "last_tick"}

\* no row of the table agrees with what the call looks for (a falsy argument
\* looks for nothing)
Absent(rows, fields) == AgreeingRows(rows, fields) = <<>>

\* what a read gives back when nothing matches: the empty list, None, or 0
AbsenceIsNoError ==
    /\ op.name \in ReadNames => op.status = "ok"
    /\ (op.name = "select_groups" /\ Absent(groups, [name |-> op.args[1]]))
          => ret = <<>>
    /\ (op.name = "select_group" /\ Absent(groups, [name |-> op.args[1]]))
          => ret = NoneObj
    /\ (/\ op.name = "select_projects"
        /\ Absent(projects, [group_name |-> op.args[1], name |-> op.args[2]]))
          => ret = <<>>
    \* select_project(name) looks for group_name = name and name = 1
    /\ (/\ op.name = "select_project"
        /\ Absent(projects, [group_name |-> op.args[1], name |-> "1"]))
          => ret = NoneObj
    /\ (/\ op.name = "select_databases"
        /\ Absent(databases, [group_name |-> op.args[1], project |-> op.args[2],
                              name |-> op.args[3]]))
          => ret = <<>>
    /\ (/\ op.name = "select_database"
        /\ Absent(databases, [group_name |-> op.args[1], project |-> op.args[2],
                              name |-> op.args[3]]))
          => ret = NoneObj
    /\ (/\ op.name = "select_events"
        /\ \A i \in ScopeRows(op.args[1], op.args[2], op.args[3]) :
              events[i].tick <= op.args[4])
          => ret = <<>>
    /\ (/\ op.name = "last_tick"
        /\ ScopeRows(op.args[1], op.args[2], op.args[3]) = {})
          => ret = 0

\* C12: absence is never an error and reads never write: the select methods
\* return the empty list when nothing matches, select_group, select_project
\* and select_database return None, last_tick returns 0, none of them raises,
\* and each leaves the four tables as they were.
C12_ReadsNeverFailNorWrite ==
    /\ []AbsenceIsNoError
    /\ [][op'.name \in ReadNames => tables' = tables]_vars

\* select_database found nothing in a table that holds a row, and said None
C12_Witness ==
    /\ op.name = "select_database"
    /\ op.status = "ok"
    /\ Len(databases) > 0
    /\ Absent(databases, [group_name |-> op.args[1], project |-> op.args[2],
                          name |-> op.args[3]])
    /\ ret = NoneObj

-----------------------------------------------------------------------------
(* Properties of a rename cut short *)

\* only the first call of the rename has been made, and nothing else written
OnlyFirstMade == cascade.pc \in {"second", "crashed after first"} /\ cascade.alone

\* only the first two calls have been made, and nothing else written
OnlyTwoMade == cascade.pc \in {"third", "crashed after second"} /\ cascade.alone

\* the rows under the old name of the rename, in storage order
StillUnderOld(rows) ==
    LET Test(r) == r.group_name = cascade.group /\ r.project = cascade.old
    IN  SelectSeq(rows, Test)

\* The projects table is renamed and the tables of the calls not yet made are
\* as they were: their rows still carry the old name.
PartlyRenamed ==
    /\ OnlyFirstMade =>
          /\ ~HasProject(cascade.group, cascade.old)
          /\ databases = cascade.pre[3]
          /\ events = cascade.pre[4]
    /\ OnlyTwoMade =>
          /\ ~HasProject(cascade.group, cascade.old)
          /\ StillUnderOld(databases) = <<>>
          /\ StillUnderOld(cascade.pre[3]) # <<>> => HasProject(cascade.group, cascade.new)
          /\ events = cascade.pre[4]

\* what a reader is given in such a state
ReaderSeesPart ==
    (OnlyFirstMade \/ OnlyTwoMade) =>
        /\ (op.name = "select_projects" /\ op.args = <<cascade.group, cascade.old, 0>>)
              => ret = <<>>
        /\ (op.name = "select_databases"
              /\ op.args = <<cascade.group, cascade.old, None, 0>>)
              => ret = IF OnlyFirstMade THEN StillUnderOld(cascade.pre[3]) ELSE <<>>
        /\ (op.name = "select_events"
              /\ op.args = <<cascade.group, cascade.old, "d1", -1>>)
              => Len(ret) = Len(StillUnderOld(cascade.pre[4]))

\* C13: the rename is not atomic: each of its calls commits on its own, so
\* after the first call and before the others the databases and events rows
\* still carry (g, p1) while no projects row (g, p1) exists, and between the
\* second and the third call the events rows carry a database key that no
\* longer exists; a reader that comes in between is given that state, and a
\* crash at that point leaves it in the file.
C13_RenameNotAtomic ==
    /\ []PartlyRenamed
    /\ []ReaderSeesPart
    /\ [][(InProgress /\ ~InProgress') =>
             (op'.name = "initialize" => tables' = tables)]_vars

\* the server died after the first call; once started again, a reader is given
\* the databases of project p1, which has events, and there is no project p1
C13_Witness ==
    /\ cascade.pc = "crashed after first"
    /\ cascade.alone
    /\ op.name = "select_databases"
    /\ op.args = <<cascade.group, cascade.old, None, 0>>
    /\ ret # <<>>
    /\ StillUnderOld(events) # <<>>
    /\ ~HasProject(cascade.group, cascade.old)

-----------------------------------------------------------------------------
(* Properties of the updates: what they reach and what they leave *)

\* the table each update method writes and the column it sets
UpdateTarget ==
    [update_project_name     |-> [table |-> "projects", field |-> "name"],
     update_database_project |-> [table |-> "databases", field |-> "project"],
     update_events_project   |-> [table |-> "events", field |-> "project"]]

\* the rows of a table after the step
TableRowsAfter(table) ==
    IF table = "groups" THEN groups'
    ELSE IF table = "projects" THEN projects'
    ELSE IF table = "databases" THEN databases'
    ELSE events'

\* The step, if it is an update call, changes no other table, adds and
\* removes no row, and changes only rows whose group_name is the group and
\* whose project name is the old name of the call.
UpdateInFrame ==
    op'.name \in DOMAIN UpdateTarget =>
        LET target == UpdateTarget[op'.name]
            before == TableRows(target.table)
            after  == TableRowsAfter(target.table)
        IN  /\ \A t \in DOMAIN FilterCols \ {target.table} :
                  TableRowsAfter(t) = TableRows(t)
            /\ Len(after) = Len(before)
            /\ \A i \in 1..Len(before) :
                  after[i] # before[i] =>
                      /\ before[i].group_name = op'.args[1]
                      /\ before[i][target.field] = op'.args[2]

\* C14 as claimed: for every group and every old name, each of the three
\* updates modifies only rows of its table whose group_name equals the group
\* and whose project name equals the old name; every other row is unchanged.
C14_UpdateFrameAnyArguments == [][UpdateInFrame]_vars

\* C14 as the code has it: the same for every group and old name that is not
\* None, the empty string or 0 (a falsy one is dropped from the where clause).
C14_UpdateFrameNonFalsyArguments ==
    [][(op'.name \in DOMAIN UpdateTarget =>
            (op'.args[1] \notin FalsyValues /\ op'.args[2] \notin FalsyValues))
          => UpdateInFrame]_vars

\* update_project_name("g1", "p1", "p2") has run on a table that also held
\* project p1 of another group, which is still there
C14_Witness ==
    /\ op.name = "update_project_name"
    /\ op.status = "ok"
    /\ op.args = <<"g1", "p1", "p2", 0>>
    /\ HasProject("g1", "p2")
    /\ ~HasProject("g1", "p1")
    /\ HasProject("g2", "p1")

\* the columns of each table that the store can rewrite
Rewritable ==
    [groups    |-> {},
     projects  |-> {"name"},
     databases |-> {"project"},
     events    |-> {"project"}]

\* C15: across any sequence of operations no row is ever removed from any
\* table, groups rows never change, and an inserted row keeps the value of
\* every column but projects.name, databases.project and events.project.
C15_RowsKeepAllButProjectName ==
    [][\A t \in DOMAIN Rewritable :
          LET before == TableRows(t)
              after  == TableRowsAfter(t)
          IN  /\ Len(after) >= Len(before)
              /\ \A i \in 1..Len(before) :
                    /\ DOMAIN after[i] = DOMAIN before[i]
                    /\ \A c \in DOMAIN before[i] \ Rewritable[t] :
                          after[i][c] = before[i][c]]_vars

\* update_database_project("g1", "p1", "p2") has moved database d1, which has
\* kept its group, name and date
C15_Witness ==
    /\ op.name = "update_database_project"
    /\ op.status = "ok"
    /\ op.args = <<"g1", "p1", "p2", 0>>
    /\ \E i \in 1..Len(databases) :
          databases[i] = [group_name |-> "g1", project |-> "p2", name |-> "d1",
                          date |-> "t1"]
    /\ ~\E i \in 1..Len(databases) : databases[i].project = "p1"
    /\ Len(databases) + Len(events) = 2

-----------------------------------------------------------------------------
(* Properties of insert_database *)

\* C16: for every database object whose identity key is new, with a tick
\* entry among its attributes or without, insert_database completes without
\* error and inserts exactly one databases row, made of the object's
\* group_name, project, name and date, never a tick.
C16_InsertDatabaseWithOrWithoutTick ==
    [][op'.name = "insert_database" =>
          LET database == op'.args[1]
              row == Restrict(database, DOMAIN database \ {"tick"})
          IN  (/\ AllNonEmpty(row)
               /\ ~HasDatabase(database.group_name, database.project, database.name))
                 => /\ op'.status = "ok"
                    /\ databases' = Append(databases, row)]_vars

-----------------------------------------------------------------------------
(* Properties of replay *)

\* the stored events of the followed database
FollowedRows == ScopeRows(Followed.group, Followed.project, Followed.database)

\* the reader has been given the stored event of this position
Holds(i) == \E j \in 1..Len(received) : SameEvent(received[j], events[i])

\* What the reader holds is a part of the history, in ascending tick order,
\* each event once, and with nothing left out below its greatest tick.
ReplaySafe ==
    /\ \A j, k \in 1..Len(received) : j < k => received[j].tick < received[k].tick
    /\ \A j \in 1..Len(received) :
          \E i \in FollowedRows : SameEvent(received[j], events[i])
    /\ \A i \in FollowedRows : events[i].tick <= Since => Holds(i)

\* the reader holds the whole history, up to last_tick
ReplayComplete ==
    /\ \A i \in FollowedRows : Holds(i)
    /\ Since = last_tick(Followed.group, Followed.project, Followed.database)

\* C17: with events inserted in strictly increasing tick order, from tick 1,
\* a reader that keeps calling select_events with the greatest tick it has
\* received (0 at first) receives, under every interleaving with the writers,
\* every inserted event exactly once and in ascending tick order, and once the
\* writers stop it comes to hold the whole history up to last_tick.
C17_ReplayComplete ==
    /\ []ReplaySafe
    /\ <>[]ReplayComplete

\* the reader holds the whole history of two events or more, the last of
\* which it was given by a later call than the first
C17_Witness ==
    /\ Len(received) >= 2
    /\ ReplayComplete
    /\ op.name = "select_events"
    /\ op.args[4] >= 1
    /\ ret # <<>>

\* select_events(scope, 0) returns every stored event of the scope
WholeHistory(scope) ==
    LET rows == ScopeRows(scope.group, scope.project, scope.database)
        got == select_events(scope.group, scope.project, scope.database, 0)
    IN  /\ Len(got) = Cardinality(rows)
        /\ \A i \in rows : \E j \in 1..Len(got) : SameEvent(got[j], events[i])

\* C18 as claimed: for every scope and every sequence of successful
\* insert_event calls with non-negative ticks, select_events(scope, 0) returns
\* the complete history of the scope, every event ever inserted into it.
C18_SelectFromZeroIsWholeHistory ==
    \A scope \in {Followed, Elsewhere} : WholeHistory(scope)

\* C18 as the code has it: the same for ticks of at least 1; an event of
\* tick 0 is stored, and select_events(scope, 0) does not return it.
C18_SelectFromZeroIsHistoryFromOne ==
    \A scope \in {Followed, Elsewhere} :
        LET rows == ScopeRows(scope.group, scope.project, scope.database)
        IN  /\ (\A i \in rows : events[i].tick >= 1) => WholeHistory(scope)
            /\ Len(select_events(scope.group, scope.project, scope.database, 0))
                  = Cardinality({i \in rows : events[i].tick >= 1})

\* select_events(scope, 0) was called on a scope of two events and returned
\* both, while the other scope holds an event of tick 0
C18_Witness ==
    /\ op.name = "select_events"
    /\ op.args[4] = 0
    /\ Cardinality(FollowedRows) = 2
    /\ Len(ret) = 2
    /\ \E i \in ScopeRows(Elsewhere.group, Elsewhere.project, Elsewhere.database) :
          events[i].tick = 0

====
